---- MODULE Spec2Model ----
\* Model of the Hyperfy client of src/src/client.ts: the agent registry, the
\* POST /agents/:agentIdOrName/hyperfy handler with its suspension points, and
\* the detached background chain createMemory -> evaluate -> processActions.
EXTENDS Integers, Sequences, FiniteSets, TLC

\* ------------------------------------------------------------------ bounds
\* Number of turns (requests) the model lets arrive; a turn runs concurrently
\* with the other turns and with registerAgent / unregisterAgent.
MaxTurns == 1

Turns == 1..MaxTurns

\* ------------------------------------------------------------ JSON values
\* A JavaScript value as the handler sees it: tagged by its typeof.
Null == [t |-> "null"]
Undefined == [t |-> "undefined"]
Str(s) == [t |-> "string", v |-> s]
Num(n) == [t |-> "number", n |-> n]
Arr(a) == [t |-> "array", v |-> a]

\* Identifiers and names are sequences of characters, so that toLowerCase is
\* computed character by character.
LowerChar(c) ==
    CASE c = "A" -> "a"
      [] c = "B" -> "b"
      [] c = "C" -> "c"
      [] OTHER -> c

ToLowerCase(s) == [i \in 1..Len(s) |-> LowerChar(s[i])]

\* stringToUuid: a deterministic, injective derivation of an identifier.
StringToUuid(s) == <<"u", "u", "i", "d", ":">> \o s

Hyperfy == <<"h", "y", "p", "e", "r", "f", "y">>

\* ---------------------------------------------------------------- registry
\* The runtimes the hosting environment may register: agentId and
\* character.name.  The name of the second equals the id of the first
\* case-insensitively.
MkRuntime(id, name) == [agentId |-> id, character |-> [name |-> name]]

Runtimes ==
    { MkRuntime(<<"a">>, <<"B">>),
      MkRuntime(<<"b">>, <<"A">>) }

NoRuntime == MkRuntime(<<>>, <<>>)

\* The strings a caller may put in the route parameter agentIdOrName.
AgentIdOrNames == { <<"a">>, <<"A">>, <<"z">> }

\* this.agents is a Map: insertion-ordered, one entry per key.  It is modelled
\* as the sequence of its values; the key of an entry is its agentId.
MapHas(m, k) == \E i \in 1..Len(m) : m[i].agentId = k

MapGet(m, k) == m[CHOOSE i \in 1..Len(m) : m[i].agentId = k]

\* MapSet as a list would do it: always appended, whatever the key.
MapSetAppend(m, r) == Append(m, r)

\* Map.prototype.set: an existing key keeps its position, a new key is appended.
MapSet(m, r) ==
    IF MapHas(m, r.agentId)
    THEN [i \in 1..Len(m) |-> IF m[i].agentId = r.agentId THEN r ELSE m[i]]
    ELSE Append(m, r)

\* Map.prototype.delete
MapDelete(m, k) == SelectSeq(m, LAMBDA e : e.agentId # k)

\* Array.prototype.find over Array.from(this.agents.values()): the first entry
\* in insertion order whose lower-cased name equals the lower-cased parameter.
NameMatches(m, id) ==
    { i \in 1..Len(m) : ToLowerCase(m[i].character.name) = ToLowerCase(id) }

Min(S) == CHOOSE x \in S : \A y \in S : x <= y

\* FindByName falling back to the first registered runtime.
FindByNameOrFirst(m, id) ==
    IF NameMatches(m, id) # {} THEN m[Min(NameMatches(m, id))]
    ELSE IF Len(m) > 0 THEN m[1] ELSE NoRuntime

FindByName(m, id) ==
    IF NameMatches(m, id) = {} THEN NoRuntime ELSE m[Min(NameMatches(m, id))]

\* ResolveRuntime with the name looked up before the id.
ResolveRuntimeNameFirst(m, id) ==
    IF NameMatches(m, id) # {} THEN m[Min(NameMatches(m, id))]
    ELSE IF MapHas(m, id) THEN MapGet(m, id) ELSE NoRuntime

\* The runtime a request is served by, NoRuntime when the 404 path is taken.
ResolveRuntime(m, id) ==
    IF MapHas(m, id) THEN MapGet(m, id) ELSE FindByName(m, id)

\* ------------------------------------------------------------------ schema
\* The zod schemas the handler builds, as data, and what parse accepts.
ZString == [z |-> "string"]
ZNull == [z |-> "null"]
ZLiteral(s) == [z |-> "literal", value |-> s]
ZUnion(opts) == [z |-> "union", options |-> opts]
ZArray(e) == [z |-> "array", element |-> e]
ZNullable(e) == [z |-> "nullable", inner |-> e]

RECURSIVE Accepts(_, _)
Accepts(schema, v) ==
    CASE schema.z = "string" -> v.t = "string"
      [] schema.z = "null" -> v.t = "null"
      [] schema.z = "literal" -> v.t = "string" /\ v.v = schema.value
      [] schema.z = "union" ->
            \E i \in 1..Len(schema.options) : Accepts(schema.options[i], v)
      [] schema.z = "array" ->
            v.t = "array" /\ \A i \in 1..Len(v.v) : Accepts(schema.element, v.v[i])
      [] schema.z = "nullable" -> v.t = "null" \/ Accepts(schema.inner, v)

\* body.emotes || []  (an array, even an empty one, is truthy)
OrEmpty(v) == IF v.t = "array" THEN v.v ELSE <<>>

Literals(items) == [i \in 1..Len(items) |-> ZLiteral(items[i].v)]

\* VocabularySchema without z.string(): a non-empty vocabulary is an exclusive
\* whitelist.
VocabularySchemaExclusive(items) ==
    IF Len(items) > 0
    THEN ZUnion(<<ZUnion(Literals(items)), ZNull>>)
    ELSE ZUnion(<<ZString, ZNull>>)

VocabularySchema(items) ==
    IF Len(items) > 0
    THEN ZUnion(<<ZUnion(Literals(items)), ZString, ZNull>>)
    ELSE ZUnion(<<ZString, ZNull>>)

createHyperfyOutSchema(body) ==
    [lookAt |-> VocabularySchema(OrEmpty(body.triggers)),
     emote |-> VocabularySchema(OrEmpty(body.emotes)),
     say |-> ZNullable(ZString),
     actions |-> ZNullable(ZArray(ZString))]

SchemaKeys == {"lookAt", "emote", "say", "actions"}

\* A key the object does not have reads as undefined.
Field(obj, k) == IF k \in DOMAIN obj THEN obj[k] ELSE Undefined

\* z.object(...).parse: every key of the shape must be accepted; the result
\* has the keys of the shape only (unknown keys are stripped).
ParseOk(schema, obj) == \A k \in SchemaKeys : Accepts(schema[k], Field(obj, k))

ParseValue(schema, obj) == [k \in SchemaKeys |-> Field(obj, k)]

\* ------------------------------------------------------------------ inputs
\* Request bodies: {} ; emotes only ; triggers only ; both vocabularies empty ;
\* a full snapshot with a roomId.
MkBody(roomId, emotes, triggers) ==
    [roomId |-> roomId, emotes |-> emotes, triggers |-> triggers]

Bodies ==
    { MkBody(Undefined, Undefined, Undefined),
      MkBody(Undefined, Arr(<<Str("wave")>>), Undefined),
      MkBody(Undefined, Undefined, Arr(<<Str("player1")>>)),
      MkBody(Undefined, Arr(<<>>), Arr(<<>>)),
      MkBody(Str(<<"w">>), Arr(<<Str("wave"), Str("laugh")>>), Arr(<<Str("player1")>>)) }

\* Objects the generative backend may return in response.object.
MkObject(lookAt, emote, say, actions) ==
    [lookAt |-> lookAt, emote |-> emote, say |-> say, actions |-> actions]

\* Decisions that conform to the schema: silent; say only; say, gaze and emote;
\* say with one, two and no behaviors; gaze and a behavior without say.
ValidObjects ==
    { MkObject(Null, Null, Null, Null),
      MkObject(Null, Null, Str("hi"), Null),
      MkObject(Str("player1"), Str("wave"), Str("hi"), Null),
      MkObject(Null, Null, Str("hi"), Arr(<<Str("jump")>>)),
      MkObject(Null, Null, Str("hi"), Arr(<<Str("jump"), Str("run")>>)),
      MkObject(Null, Null, Str("hi"), Arr(<<>>)),
      MkObject(Str("zed"), Null, Null, Arr(<<Str("jump")>>)) }

\* Objects that do not: a number for say, and a missing actions key.
InvalidObjects ==
    { MkObject(Null, Null, Num(42), Null),
      [lookAt |-> Null, emote |-> Null, say |-> Str("hi")] }

BackendObjects == ValidObjects \cup InvalidObjects

\* ------------------------------------------------- the background executor
\* String(v) as += applies it to the left operand: null reads "null".
ToText(v) == IF v.t = "string" THEN v.v ELSE v.t

\* contentObj.text as the executor leaves it.
ComposeText(hfOut) ==
    LET said == hfOut.say
        then == IF hfOut.lookAt # Null \/ hfOut.emote # Null
                THEN Str(ToText(said) \o ". Then I ")
                ELSE said
        looked == IF (hfOut.lookAt # Null \/ hfOut.emote # Null) /\ hfOut.lookAt # Null
                  THEN Str(then.v \o "looked at " \o hfOut.lookAt.v
                            \o (IF hfOut.emote # Null THEN " and " ELSE ""))
                  ELSE then
    IN  IF hfOut.emote # Null THEN Str("emoted " \o hfOut.emote.v) ELSE looked

\* The last element in place of the first.
LastElement(a) == IF Len(a) > 0 THEN a[Len(a)] ELSE Undefined

\* hfOut.actions[0]: undefined for an empty array.
First(a) == IF Len(a) > 0 THEN a[1] ELSE Undefined

\* contentObj.action stays unset when actions is null.
ActionTag(hfOut) ==
    IF hfOut.actions # Null THEN First(hfOut.actions.v) ELSE Undefined

ContentObj(hfOut) == [text |-> ComposeText(hfOut), action |-> ActionTag(hfOut)]

\* Truthy testing against null only: an unset tag passes.
TruthyNotNull(v) == v.t # "null"

\* if (contentObj.action): a non-empty string is the only truthy tag.
Truthy(v) == v.t = "string" /\ v.v # ""

\* ------------------------------------------------------ messages of a turn
RoomId(body) ==
    StringToUuid(IF body.roomId.t = "string" THEN body.roomId.v ELSE Hyperfy)

\* content of the incoming stimulus; JSON.stringify(req.body) is kept as the
\* body itself.
StimulusContent(body) == [text |-> body, source |-> "hyperfy"]

UserMessage(rt, body) ==
    [content |-> StimulusContent(body),
     userId |-> StringToUuid(Hyperfy),
     roomId |-> RoomId(body),
     agentId |-> rt.agentId]

ResponseMessage(rt, body, hfOut) ==
    [content |-> ContentObj(hfOut),
     userId |-> rt.agentId,
     roomId |-> RoomId(body),
     agentId |-> rt.agentId]

\* The Memory handed to evaluate and processActions (its id and createdAt come
\* from the clock and are left out).
StimulusMemory(rt, body) ==
    [content |-> StimulusContent(body),
     userId |-> StringToUuid(Hyperfy),
     roomId |-> RoomId(body),
     agentId |-> rt.agentId]

\* body.emotes.join / body.triggers.join throw a TypeError unless both are arrays.
CanJoin(v) == v.t = "array"

\* ---------------------------------------------------------------- responses
NoRequest == [agentIdOrName |-> <<>>, body |-> MkBody(Undefined, Undefined, Undefined)]

Send(status, text) == [status |-> status, kind |-> "send", text |-> text]

Json(obj) == [status |-> 200, kind |-> "json", body |-> obj]

\* What the caller gets when the async handler rejects: nothing (the rejection
\* is unhandled and the request stays open) or the framework's own error page,
\* depending on the framework release.
RejectionOutcomes == { <<>>, <<Send(500, "Internal Server Error")>> }

\* What a turn does to its collaborators, as logged in order: a call with its
\* argument, and the settlement of the promise a call returned.
Call(fn, arg) == [ev |-> "call", fn |-> fn, arg |-> arg]

Settled(fn, how) == [ev |-> how, fn |-> fn]

\* -------------------------------------------------------------------- state
VARIABLES
    agents,     \* this.agents, in insertion order
    pc,         \* per turn: where the async handler stands
    req,        \* per turn: the request (route parameter and body)
    runtime,    \* per turn: the runtime the handler resolved
    hfOut,      \* per turn: the parsed decision
    sent,       \* per turn: the responses written to the caller, in order
    bg,         \* per turn: where the detached promise chain stands
    log,        \* per turn: collaborator calls and their settlements, in order
    memories,   \* the memory store: the records createMemory has committed
    dispatch,   \* per turn: where the un-awaited processActions call stands
    arg,        \* the input of a function applied on its own
    result      \* the value that application returned

vars == <<agents, pc, req, runtime, hfOut, sent, bg, log, memories, dispatch, arg, result>>

HandlerStates == {"idle", "composeState", "generateObject", "returned", "threw"}

ChainStates ==
    {"none", "createMemory", "createMemoryRejected", "evaluate", "evaluateRejected",
     "processActionsThrew", "resolved"}

\* The processActions call of a turn: not made, running, settled, or thrown at
\* once; and whether it has invoked the callback it was given.
NoDispatch == [st |-> "none", calledBack |-> FALSE]

\* Nothing applied on its own.
NoArg == [fn |-> "none"]

NoResult == [fn |-> "none"]

Init ==
    /\ agents = <<>>
    /\ pc = [t \in Turns |-> "idle"]
    /\ req = [t \in Turns |-> NoRequest]
    /\ runtime = [t \in Turns |-> NoRuntime]
    /\ hfOut = [t \in Turns |-> Null]
    /\ sent = [t \in Turns |-> <<>>]
    /\ bg = [t \in Turns |-> "none"]
    /\ log = [t \in Turns |-> <<>>]
    /\ memories = {}
    /\ dispatch = [t \in Turns |-> NoDispatch]
    /\ arg = NoArg
    /\ result = NoResult

\* ----------------------------------------------------------------- registry
registerAgent(rt) ==
    /\ agents' = MapSet(agents, rt)
    /\ UNCHANGED <<pc, req, runtime, hfOut, sent, bg, log, memories, dispatch, arg, result>>

unregisterAgent(rt) ==
    /\ agents' = MapDelete(agents, rt.agentId)
    /\ UNCHANGED <<pc, req, runtime, hfOut, sent, bg, log, memories, dispatch, arg, result>>

\* ------------------------------------------------------------------ handler
\* A request arrives: the handler resolves the runtime, answers 404 or builds
\* userMessage and suspends in composeState.
Request(t, id, body) ==
    /\ pc[t] = "idle"
    /\ \A u \in Turns : u < t => pc[u] # "idle"
    /\ req' = [req EXCEPT ![t] = [agentIdOrName |-> id, body |-> body]]
    /\ LET rt == ResolveRuntime(agents, id)
       IN  IF rt = NoRuntime
           THEN /\ sent' = [sent EXCEPT ![t] = Append(@, Send(404, "Agent not found"))]
                /\ pc' = [pc EXCEPT ![t] = "returned"]
                /\ UNCHANGED <<runtime, log>>
           ELSE /\ runtime' = [runtime EXCEPT ![t] = rt]
                /\ log' = [log EXCEPT ![t] =
                              Append(@, Call("composeState", UserMessage(rt, body)))]
                /\ pc' = [pc EXCEPT ![t] = "composeState"]
                /\ UNCHANGED sent
    /\ UNCHANGED <<agents, hfOut, bg, memories, dispatch, arg, result>>

\* HandlerThrows with a cleanup: the turn that failed drops its agent from the
\* registry.
HandlerThrowsUnregisters(t, events) ==
    /\ pc' = [pc EXCEPT ![t] = "threw"]
    /\ log' = [log EXCEPT ![t] = @ \o events]
    /\ \E out \in RejectionOutcomes : sent' = [sent EXCEPT ![t] = @ \o out]
    /\ agents' = MapDelete(agents, runtime[t].agentId)
    /\ UNCHANGED <<req, runtime, hfOut, bg, memories, dispatch, arg, result>>

\* The handler's promise rejects with `events` logged: nothing catches it.
HandlerThrows(t, events) ==
    /\ pc' = [pc EXCEPT ![t] = "threw"]
    /\ log' = [log EXCEPT ![t] = @ \o events]
    /\ \E out \in RejectionOutcomes : sent' = [sent EXCEPT ![t] = @ \o out]
    /\ UNCHANGED <<agents, req, runtime, hfOut, bg, memories, dispatch, arg, result>>

\* composeState resolves: the template is filled (the joins throw without the
\* vocabularies), the schema is built and generateObject is called.
ComposeStateReturns(t) ==
    /\ pc[t] = "composeState"
    /\ IF CanJoin(req[t].body.emotes) /\ CanJoin(req[t].body.triggers)
       THEN /\ log' = [log EXCEPT ![t] =
                          @ \o << Settled("composeState", "resolved"),
                                  Call("generateObject",
                                       createHyperfyOutSchema(req[t].body)) >>]
            /\ pc' = [pc EXCEPT ![t] = "generateObject"]
            /\ UNCHANGED <<agents, req, runtime, hfOut, sent, bg, memories, dispatch, arg, result>>
       ELSE HandlerThrows(t, <<Settled("composeState", "resolved")>>)

ComposeStateThrows(t) ==
    /\ pc[t] = "composeState"
    /\ HandlerThrows(t, <<Settled("composeState", "rejected")>>)

\* StartBackground with evaluate called next to createMemory instead of in its
\* .then callback.
StartBackgroundUnchained(t, out) ==
    /\ hfOut' = [hfOut EXCEPT ![t] = out]
    /\ log' = [log EXCEPT ![t] =
                  @ \o << Settled("generateObject", "resolved"),
                          Call("createMemory",
                               ResponseMessage(runtime[t], req[t].body, out)),
                          Call("evaluate", StimulusMemory(runtime[t], req[t].body)) >>]
    /\ bg' = [bg EXCEPT ![t] = "evaluate"]
    /\ sent' = [sent EXCEPT ![t] = Append(@, Json(out))]
    /\ pc' = [pc EXCEPT ![t] = "returned"]

\* StartBackground with the promise awaited: the response waits for the chain.
StartBackgroundAwaited(t, out) ==
    /\ hfOut' = [hfOut EXCEPT ![t] = out]
    /\ log' = [log EXCEPT ![t] =
                  @ \o << Settled("generateObject", "resolved"),
                          Call("createMemory",
                               ResponseMessage(runtime[t], req[t].body, out)) >>]
    /\ bg' = [bg EXCEPT ![t] = "createMemory"]
    /\ UNCHANGED <<sent, pc>>

\* The executor of the detached promise: contentObj and responseMessage are
\* built and createMemory is called; then res.json(hfOut).
StartBackground(t, out) ==
    /\ hfOut' = [hfOut EXCEPT ![t] = out]
    /\ log' = [log EXCEPT ![t] =
                  @ \o << Settled("generateObject", "resolved"),
                          Call("createMemory",
                               ResponseMessage(runtime[t], req[t].body, out)) >>]
    /\ bg' = [bg EXCEPT ![t] = "createMemory"]
    /\ sent' = [sent EXCEPT ![t] = Append(@, Json(out))]
    /\ pc' = [pc EXCEPT ![t] = "returned"]

\* Fail500 with a retry instead of the answer: generateObject is called again
\* with the same schema.
Fail500Retry(t, text) ==
    /\ log' = [log EXCEPT ![t] =
                  @ \o << Settled("generateObject", "resolved"),
                          Call("generateObject", createHyperfyOutSchema(req[t].body)) >>]
    /\ UNCHANGED <<sent, pc, hfOut, bg>>

\* The handler answers 500 and returns.
Fail500(t, text) ==
    /\ sent' = [sent EXCEPT ![t] = Append(@, Send(500, text))]
    /\ log' = [log EXCEPT ![t] = Append(@, Settled("generateObject", "resolved"))]
    /\ pc' = [pc EXCEPT ![t] = "returned"]
    /\ UNCHANGED <<hfOut, bg>>

\* GenerateObjectReturns with the executor moved above the re-validation: the
\* outgoing record is created from the raw object before parse rejects it.
GenerateObjectReturnsEager(t, response) ==
    /\ pc[t] = "generateObject"
    /\ IF response = Null
       THEN Fail500(t, "No response from generateMessageResponse")
       ELSE LET schema == createHyperfyOutSchema(req[t].body)
            IN  IF ParseOk(schema, response.object)
                THEN StartBackground(t, ParseValue(schema, response.object))
                ELSE /\ sent' = [sent EXCEPT ![t] =
                                    Append(@, Send(500, "Error in LLM response, try again"))]
                     /\ log' = [log EXCEPT ![t] =
                                   @ \o << Settled("generateObject", "resolved"),
                                           Call("createMemory",
                                                [content |-> [text |-> Field(response.object, "say"),
                                                              action |-> Undefined],
                                                 userId |-> runtime[t].agentId,
                                                 roomId |-> RoomId(req[t].body),
                                                 agentId |-> runtime[t].agentId]) >>]
                     /\ pc' = [pc EXCEPT ![t] = "returned"]
                     /\ UNCHANGED <<hfOut, bg>>
    /\ UNCHANGED <<agents, req, runtime, memories, dispatch, arg, result>>

\* generateObject resolves with `response`: a falsy value, or an object whose
\* .object is re-validated against the schema.
GenerateObjectReturns(t, response) ==
    /\ pc[t] = "generateObject"
    /\ IF response = Null
       THEN Fail500(t, "No response from generateMessageResponse")
       ELSE LET schema == createHyperfyOutSchema(req[t].body)
            IN  IF ParseOk(schema, response.object)
                THEN StartBackground(t, ParseValue(schema, response.object))
                ELSE Fail500(t, "Error in LLM response, try again")
    /\ UNCHANGED <<agents, req, runtime, memories, dispatch, arg, result>>

GenerateObjectThrows(t) ==
    /\ pc[t] = "generateObject"
    /\ HandlerThrows(t, <<Settled("generateObject", "rejected")>>)

\* --------------------------------------------------------- background chain
\* CreateMemoryResolves with processActions called next to evaluate instead of
\* in its .then callback.
CreateMemoryResolvesParallel(t) ==
    /\ bg[t] = "createMemory"
    /\ memories' = memories \cup
          { [turn |-> t, record |-> ResponseMessage(runtime[t], req[t].body, hfOut[t])] }
    /\ log' = [log EXCEPT ![t] =
                  @ \o << Settled("createMemory", "resolved"),
                          Call("evaluate", StimulusMemory(runtime[t], req[t].body)) >>
                    \o (IF Truthy(ContentObj(hfOut[t]).action)
                        THEN << Call("processActions", ContentObj(hfOut[t]).action) >>
                        ELSE << >>)]
    /\ bg' = [bg EXCEPT ![t] = "evaluate"]
    /\ UNCHANGED <<agents, pc, req, runtime, hfOut, sent, dispatch, arg, result>>

\* createMemory resolves: the record is in the store; the .then callback builds
\* the stimulus memory and calls evaluate.
CreateMemoryResolves(t) ==
    /\ bg[t] = "createMemory"
    /\ memories' = memories \cup
          { [turn |-> t, record |-> ResponseMessage(runtime[t], req[t].body, hfOut[t])] }
    /\ log' = [log EXCEPT ![t] =
                  @ \o << Settled("createMemory", "resolved"),
                          Call("evaluate", StimulusMemory(runtime[t], req[t].body)) >>]
    /\ bg' = [bg EXCEPT ![t] = "evaluate"]
    /\ UNCHANGED <<agents, pc, req, runtime, hfOut, sent, dispatch, arg, result>>

\* CreateMemoryRejects with the callback attached by .finally instead of .then:
\* it runs after a rejection too.
CreateMemoryRejectsFinally(t) ==
    /\ bg[t] = "createMemory"
    /\ log' = [log EXCEPT ![t] =
                  @ \o << Settled("createMemory", "rejected"),
                          Call("evaluate", StimulusMemory(runtime[t], req[t].body)) >>]
    /\ bg' = [bg EXCEPT ![t] = "evaluate"]
    /\ UNCHANGED <<agents, pc, req, runtime, hfOut, sent, memories, dispatch, arg, result>>

\* CreateMemoryRejects with a retry: the same record is created again.
CreateMemoryRejectsRetry(t) ==
    /\ bg[t] = "createMemory"
    /\ log' = [log EXCEPT ![t] =
                  @ \o << Settled("createMemory", "rejected"),
                          Call("createMemory",
                               ResponseMessage(runtime[t], req[t].body, hfOut[t])) >>]
    /\ UNCHANGED <<agents, pc, req, runtime, hfOut, sent, bg, memories, dispatch, arg, result>>

\* createMemory rejects: the .then callback never runs.
CreateMemoryRejects(t) ==
    /\ bg[t] = "createMemory"
    /\ log' = [log EXCEPT ![t] = Append(@, Settled("createMemory", "rejected"))]
    /\ bg' = [bg EXCEPT ![t] = "createMemoryRejected"]
    /\ UNCHANGED <<agents, pc, req, runtime, hfOut, sent, memories, dispatch, arg, result>>

\* evaluate resolves: processActions is called, un-awaited, when the action
\* tag is set (`threw`: it throws at once, which skips resolve), then
\* resolve(true).
EvaluateResolves(t, threw) ==
    /\ bg[t] = "evaluate"
    /\ IF Truthy(ContentObj(hfOut[t]).action)
       THEN /\ log' = [log EXCEPT ![t] =
                          @ \o << Settled("evaluate", "resolved"),
                                  Call("processActions", ContentObj(hfOut[t]).action) >>]
            /\ bg' = [bg EXCEPT ![t] =
                         IF threw THEN "processActionsThrew" ELSE "resolved"]
            /\ dispatch' = [dispatch EXCEPT ![t].st =
                               IF threw THEN "threw" ELSE "running"]
       ELSE /\ ~threw
            /\ log' = [log EXCEPT ![t] = Append(@, Settled("evaluate", "resolved"))]
            /\ bg' = [bg EXCEPT ![t] = "resolved"]
            /\ UNCHANGED dispatch
    /\ UNCHANGED <<agents, pc, req, runtime, hfOut, sent, memories, arg, result>>

\* ProcessActionsCallsBack with the override the FIXME asks for: the callback
\* answers the caller with the new messages.
ProcessActionsCallsBackOverrides(t) ==
    /\ dispatch[t].st = "running"
    /\ dispatch' = [dispatch EXCEPT ![t].calledBack = TRUE]
    /\ sent' = [sent EXCEPT ![t] =
                   Append(@, Json(<<StimulusMemory(runtime[t], req[t].body)>>))]
    /\ UNCHANGED <<agents, pc, req, runtime, hfOut, bg, log, memories, arg, result>>

\* The dispatched behavior invokes the callback, any number of times: it
\* returns [memory], which nothing reads.
ProcessActionsCallsBack(t) ==
    /\ dispatch[t].st = "running"
    /\ dispatch' = [dispatch EXCEPT ![t].calledBack = TRUE]
    /\ UNCHANGED <<agents, pc, req, runtime, hfOut, sent, bg, log, memories, arg, result>>

\* The promise of processActions settles; nothing is attached to it.
ProcessActionsSettles(t, how) ==
    /\ dispatch[t].st = "running"
    /\ dispatch' = [dispatch EXCEPT ![t].st = how]
    /\ UNCHANGED <<agents, pc, req, runtime, hfOut, sent, bg, log, memories, arg, result>>

\* evaluate rejects: the inner .then callback never runs.
EvaluateRejects(t) ==
    /\ bg[t] = "evaluate"
    /\ log' = [log EXCEPT ![t] = Append(@, Settled("evaluate", "rejected"))]
    /\ bg' = [bg EXCEPT ![t] = "evaluateRejected"]
    /\ UNCHANGED <<agents, pc, req, runtime, hfOut, sent, memories, dispatch, arg, result>>

\* ------------------------------------------------------------ specification
Next ==
    \/ \E rt \in Runtimes : registerAgent(rt)
    \/ \E rt \in Runtimes : unregisterAgent(rt)
    \/ \E t \in Turns, id \in AgentIdOrNames, body \in Bodies : Request(t, id, body)
    \/ \E t \in Turns : ComposeStateReturns(t)
    \/ \E t \in Turns : ComposeStateThrows(t)
    \/ \E t \in Turns, o \in BackendObjects : GenerateObjectReturns(t, [object |-> o])
    \/ \E t \in Turns : GenerateObjectReturns(t, Null)
    \/ \E t \in Turns : GenerateObjectThrows(t)
    \/ \E t \in Turns : CreateMemoryResolves(t)
    \/ \E t \in Turns : CreateMemoryRejects(t)
    \/ \E t \in Turns, threw \in BOOLEAN : EvaluateResolves(t, threw)
    \/ \E t \in Turns : EvaluateRejects(t)
    \/ \E t \in Turns : ProcessActionsCallsBack(t)
    \/ \E t \in Turns, how \in {"resolved", "rejected"} : ProcessActionsSettles(t, how)

Spec == Init /\ [][Next]_vars

\* ------------------------------------------- the registry on its own
\* Runtimes for the registry alone: every id comes with several names, so that
\* registering replaces an entry by a different runtime of the same id.
RegistryRuntimes ==
    { MkRuntime(id, name) :
        id \in { <<"a">>, <<"b">>, <<"c">> },
        name \in { <<"A">>, <<"a">>, <<"B">> } }

NextRegistry ==
    \/ \E rt \in RegistryRuntimes : registerAgent(rt)
    \/ \E rt \in RegistryRuntimes : unregisterAgent(rt)

SpecRegistry == Init /\ [][NextRegistry]_vars

\* ------------------------------- record building and parsing on their own
\* Decisions the executor may be given: every combination of null and
\* non-null fields.
Decisions ==
    { MkObject(l, e, s, a) :
        l \in {Null, Str("player1"), Str("zed")},
        e \in {Null, Str("wave"), Str("dance")},
        s \in {Null, Str("hi"), Str("")},
        a \in {Null, Arr(<<>>), Arr(<<Str("jump")>>), Arr(<<Str("jump"), Str("run")>>)} }

RecordArgs ==
    { [fn |-> "record", runtime |-> rt, body |-> b, hfOut |-> d] :
        rt \in Runtimes,
        b \in { MkBody(Undefined, Arr(<<>>), Arr(<<>>)) },
        d \in Decisions }

\* Vocabularies and candidate objects for the schema: vocabulary entries,
\* other strings, null, non-strings and missing keys.
EmoteVocabularies == { <<>>, <<Str("wave")>>, <<Str("wave"), Str("laugh")>> }

TriggerVocabularies == { <<>>, <<Str("player1")>> }

CandidateObjects ==
    { MkObject(l, e, s, a) :
        l \in {Null, Str("player1"), Str("zed"), Num(1), Undefined},
        e \in {Null, Str("wave"), Str("dance"), Num(1)},
        s \in {Null, Str("hi"), Num(42)},
        a \in {Null, Arr(<<>>), Arr(<<Str("jump")>>), Arr(<<Str("jump"), Num(1)>>),
               Str("jump"), Undefined} }

ParseArgs ==
    { [fn |-> "parse", body |-> MkBody(Undefined, Arr(e), Arr(t)), object |-> o] :
        e \in EmoteVocabularies, t \in TriggerVocabularies, o \in CandidateObjects }

InitPure ==
    /\ agents = <<>>
    /\ pc = [t \in Turns |-> "idle"]
    /\ req = [t \in Turns |-> NoRequest]
    /\ runtime = [t \in Turns |-> NoRuntime]
    /\ hfOut = [t \in Turns |-> Null]
    /\ sent = [t \in Turns |-> <<>>]
    /\ bg = [t \in Turns |-> "none"]
    /\ log = [t \in Turns |-> <<>>]
    /\ memories = {}
    /\ dispatch = [t \in Turns |-> NoDispatch]
    /\ arg \in RecordArgs \cup ParseArgs
    /\ result = NoResult

\* The executor builds responseMessage from a decision.
BuildRecord ==
    /\ arg.fn = "record"
    /\ result = NoResult
    /\ result' = [fn |-> "record",
                  value |-> ResponseMessage(arg.runtime, arg.body, arg.hfOut)]
    /\ UNCHANGED <<agents, pc, req, runtime, hfOut, sent, bg, log, memories, dispatch, arg>>

\* The schema is built from the body and the object is parsed against it.
ParseObject ==
    /\ arg.fn = "parse"
    /\ result = NoResult
    /\ result' = [fn |-> "parse",
                  ok |-> ParseOk(createHyperfyOutSchema(arg.body), arg.object)]
    /\ UNCHANGED <<agents, pc, req, runtime, hfOut, sent, bg, log, memories, dispatch, arg>>

NextPure == BuildRecord \/ ParseObject

SpecPure == InitPure /\ [][NextPure]_vars

\* ------------------------------------------------------- observing a turn
\* Positions in the log of turn t of the calls of fn.
Calls(t, fn) ==
    { i \in 1..Len(log[t]) : log[t][i].ev = "call" /\ log[t][i].fn = fn }

\* Positions of the createMemory calls whose sender is the agent itself.
OutgoingCreateCalls(t) ==
    { i \in Calls(t, "createMemory") : log[t][i].arg.userId = log[t][i].arg.agentId }

\* Positions where the promise of fn settled as `how`.
Settlements(t, fn, how) ==
    { i \in 1..Len(log[t]) : log[t][i] = Settled(fn, how) }

\* The committed records of turn t whose sender is the agent itself.
OutgoingRecords(t) ==
    { m \in memories : m.turn = t /\ m.record.userId = m.record.agentId }

Validated(t) == hfOut[t] # Null

ErrorResponses ==
    { Send(404, "Agent not found"),
      Send(500, "No response from generateMessageResponse"),
      Send(500, "Error in LLM response, try again") }

\* ------------------------------------------------------------------ claims
\* C1: every behavior dispatch (processActions) of a turn comes after the
\* successful completion of that turn's createMemory of the outgoing record
\* (sender = agent), and the record is then in the store.
C1_DispatchAfterOutgoingRecord ==
    \A t \in Turns : \A d \in Calls(t, "processActions") :
        /\ \E c \in OutgoingCreateCalls(t) :
              \E r \in Settlements(t, "createMemory", "resolved") : c < r /\ r < d
        /\ OutgoingRecords(t) # {}

C1_Witness ==
    \E t \in Turns : Calls(t, "processActions") # {} /\ OutgoingRecords(t) # {}

\* C2: a turn whose createMemory of the outgoing record was rejected never
\* dispatches a behavior, although its decision names one.
C2_NoDispatchAfterFailedCreate ==
    \A t \in Turns :
        Settlements(t, "createMemory", "rejected") # {}
            => /\ Calls(t, "processActions") = {}
               /\ Calls(t, "evaluate") = {}
               /\ bg[t] = "createMemoryRejected"

C2_Witness ==
    \E t \in Turns :
        /\ Settlements(t, "createMemory", "rejected") # {}
        /\ Truthy(ActionTag(hfOut[t]))
        /\ pc[t] = "returned"

\* C3: a validated decision with say, lookAt, emote and actions all null makes
\* the turn succeed without any createMemory call.
C3_SilentCreatesNoRecord ==
    \A t \in Turns :
        (Validated(t) /\ hfOut[t] = MkObject(Null, Null, Null, Null))
            => /\ sent[t] = <<Json(hfOut[t])>>
               /\ Calls(t, "createMemory") = {}

\* C4: once the decision is validated the response carrying it has been sent,
\* wherever the background chain stands (pending, rejected or resolved).
C4_ResponseDoesNotWait ==
    \A t \in Turns : Validated(t) => sent[t] = <<Json(hfOut[t])>>

\* The response is out while the outgoing record is not committed.
C4_Witness ==
    \E t \in Turns :
        /\ sent[t] = <<Json(hfOut[t])>>
        /\ bg[t] = "createMemory"
        /\ OutgoingRecords(t) = {}

\* C5: a turn answered with an error response (404 agent not found, 500 no
\* backend result, 500 schema violation) calls neither createMemory nor
\* evaluate nor processActions, and commits no record.
C5_ErrorTurnHasNoEffects ==
    \A t \in Turns :
        (\E i \in 1..Len(sent[t]) : sent[t][i] \in ErrorResponses)
            => /\ Calls(t, "createMemory") = {}
               /\ Calls(t, "evaluate") = {}
               /\ Calls(t, "processActions") = {}
               /\ bg[t] = "none"
               /\ { m \in memories : m.turn = t } = {}

\* A schema violation answered with 500 after the backend was called.
C5_Witness ==
    \E t \in Turns :
        /\ sent[t] = <<Send(500, "Error in LLM response, try again")>>
        /\ Calls(t, "generateObject") # {}
        /\ pc[t] = "returned"

\* The body of turn t lacks one of the vocabularies.
OmitsVocabulary(t) ==
    req[t].body.emotes = Undefined \/ req[t].body.triggers = Undefined

\* C6: a request to a registered agent whose body omits emotes or triggers
\* ends, once composeState has resolved, with a failure reported to the
\* caller, and generateObject is never called in that turn.
C6_MissingVocabularyReported ==
    \A t \in Turns :
        ( /\ pc[t] \in {"returned", "threw"}
          /\ runtime[t] # NoRuntime
          /\ Settlements(t, "composeState", "resolved") # {}
          /\ OmitsVocabulary(t) )
            => /\ Len(sent[t]) = 1
               /\ sent[t][1].status >= 400
               /\ Calls(t, "generateObject") = {}

\* No registered runtime has id as its agentId or, ignoring case, as its name.
Unmatched(m, id) ==
    \A i \in 1..Len(m) :
        /\ m[i].agentId # id
        /\ ToLowerCase(m[i].character.name) # ToLowerCase(id)

Arrives(t) == pc[t] = "idle" /\ pc'[t] # "idle"

NotFound == <<Send(404, "Agent not found")>>

\* C7: a request whose identifier matches no registered id and no registered
\* name (ignoring case) is answered 404 in the step it arrives in, with no
\* composeState, backend, createMemory, evaluate or processActions call; and
\* a turn answered 404 does nothing afterwards.
C7_NotFoundBeforeAnyWork ==
    [][ \A t \in Turns :
          /\ (Arrives(t) /\ Unmatched(agents, req'[t].agentIdOrName))
                => /\ sent'[t] = NotFound
                   /\ pc'[t] = "returned"
                   /\ log'[t] = <<>>
                   /\ bg'[t] = "none"
          /\ sent[t] = NotFound
                => /\ sent'[t] = NotFound
                   /\ log'[t] = <<>>
                   /\ bg'[t] = "none"
                   /\ { m \in memories' : m.turn = t } = {} ]_vars

\* A 404 although the registry is not empty.
C7_Witness ==
    \E t \in Turns :
        /\ sent[t] = NotFound
        /\ Len(agents) > 0
        /\ Unmatched(agents, req[t].agentIdOrName)

\* C8: when a request arrives and a registered runtime has the requested
\* string as its agentId, the turn is served by that runtime, whatever the
\* names of the others; a runtime found by name is used only when no id
\* matches.
C8_ExactIdPreferred ==
    [][ \A t \in Turns :
          Arrives(t) =>
            LET id == req'[t].agentIdOrName
                byId == { i \in 1..Len(agents) : agents[i].agentId = id }
            IN  /\ byId # {} => \E i \in byId : runtime'[t] = agents[i]
                /\ (byId = {} /\ runtime'[t] # NoRuntime)
                      => \E i \in 1..Len(agents) :
                            /\ runtime'[t] = agents[i]
                            /\ ToLowerCase(agents[i].character.name) = ToLowerCase(id) ]_vars

\* Served by id although an earlier-registered runtime matches by name.
C8_Witness ==
    \E t \in Turns :
        /\ pc[t] = "composeState"
        /\ runtime[t].agentId = req[t].agentIdOrName
        /\ Len(agents) > 1
        /\ agents[1].agentId # req[t].agentIdOrName
        /\ ToLowerCase(agents[1].character.name) = ToLowerCase(req[t].agentIdOrName)
        /\ \E i \in 1..Len(agents) : agents[i] = runtime[t]

\* C9: a turn makes at most one createMemory call for an outgoing record
\* (sender = agent) and at most one such record is committed for it.
C9_AtMostOneOutgoingRecord ==
    \A t \in Turns :
        /\ Cardinality(OutgoingCreateCalls(t)) <= 1
        /\ Cardinality(OutgoingRecords(t)) <= 1

C9_Witness ==
    \E t \in Turns :
        /\ Cardinality(OutgoingCreateCalls(t)) = 1
        /\ Cardinality(OutgoingRecords(t)) = 1
        /\ bg[t] = "resolved"

\* C10: a turn whose validated decision has a non-null say and null actions
\* makes exactly one createMemory call for the outgoing record (committing
\* exactly one record once that call resolves, none before) and never calls
\* processActions.
C10_SayWithoutActions ==
    \A t \in Turns :
        (Validated(t) /\ hfOut[t].say # Null /\ hfOut[t].actions = Null)
            => /\ Cardinality(OutgoingCreateCalls(t)) = 1
               /\ Cardinality(OutgoingRecords(t)) =
                     (IF Settlements(t, "createMemory", "resolved") # {} THEN 1 ELSE 0)
               /\ Calls(t, "processActions") = {}

C10_Witness ==
    \E t \in Turns :
        /\ Validated(t) /\ hfOut[t].say # Null /\ hfOut[t].actions = Null
        /\ bg[t] = "resolved"
        /\ Cardinality(OutgoingRecords(t)) = 1

\* The committed records of turn t whose sender is the world identity.
IncomingRecords(t) ==
    { m \in memories : m.turn = t /\ m.record.userId = StringToUuid(Hyperfy) }

NonSilent(d) ==
    d.lookAt # Null \/ d.emote # Null \/ d.say # Null \/ d.actions # Null

\* C11: in a turn with a non-silent decision whose outgoing record was
\* created, an incoming record for the stimulus (sender = world identity) is
\* in the memory store by the time evaluation is called.
C11_IncomingRecordCreated ==
    \A t \in Turns :
        (/\ Validated(t) /\ NonSilent(hfOut[t])
         /\ OutgoingRecords(t) # {}
         /\ Calls(t, "evaluate") # {})
            => IncomingRecords(t) # {}


\* C12: for a decision with non-null say s, non-null lookAt l and non-null
\* emote, the text of the outgoing record is s, then ". Then I looked at ",
\* then l, then " and ".
C12_TextSayGazeAnd ==
    (/\ result.fn = "record"
     /\ arg.hfOut.say # Null /\ arg.hfOut.lookAt # Null /\ arg.hfOut.emote # Null)
        => result.value.content.text =
              Str(arg.hfOut.say.v \o ". Then I looked at " \o arg.hfOut.lookAt.v \o " and ")


\* What the claim says the validator takes: any string or null.
StringOrNull(v) == v.t \in {"string", "null"}

\* A sequence of strings, or null.
StringsOrNull(v) ==
    \/ v.t = "null"
    \/ v.t = "array" /\ \A i \in 1..Len(v.v) : v.v[i].t = "string"

C14_BackendInvokedAtMostOnce ==
    \A t \in Turns :
        /\ Cardinality(Calls(t, "generateObject")) <= 1
        /\ (sent[t] # <<>> /\ sent[t][1].status = 500 /\ sent[t][1] \in ErrorResponses)
              => /\ Cardinality(Calls(t, "generateObject")) = 1
                 /\ pc[t] = "returned"

C14_Witness ==
    \E t \in Turns :
        /\ sent[t] = <<Send(500, "Error in LLM response, try again")>>
        /\ Cardinality(Calls(t, "generateObject")) = 1


\* The runtimes and the ids a registry holds.
Entries(m) == { m[i] : i \in 1..Len(m) }

Ids(m) == { m[i].agentId : i \in 1..Len(m) }

\* C15: after every registerAgent or unregisterAgent call the registry holds
\* one runtime per id; registerAgent(rt) leaves rt as the only runtime of its
\* id and the other ids as they were (so registering a runtime that is
\* already there changes nothing), and unregisterAgent(rt) leaves the id
\* absent and the other ids as they were.
C15_OneRuntimePerId ==
    [][ /\ Cardinality(Ids(agents')) = Len(agents')
        /\ \A rt \in RegistryRuntimes :
              /\ registerAgent(rt)
                    => /\ Entries(agents') =
                             { e \in Entries(agents) : e.agentId # rt.agentId } \cup {rt}
                       /\ (rt \in Entries(agents) => agents' = agents)
              /\ unregisterAgent(rt)
                    => /\ rt.agentId \notin Ids(agents')
                       /\ Entries(agents') =
                             { e \in Entries(agents) : e.agentId # rt.agentId } ]_vars

\* Every id is registered, each with one runtime.
C15_Witness ==
    /\ Len(agents) = 3
    /\ Ids(agents) = { <<"a">>, <<"b">>, <<"c">> }
    /\ agents[1] = MkRuntime(<<"a">>, <<"B">>)


\* What the turns read and write.
turnVars == <<pc, req, runtime, hfOut, sent, bg, log, memories, dispatch>>

\* C16: no step of a turn (not found, failure, success, background work)
\* changes the registry; a step that changes it is a registerAgent or an
\* unregisterAgent call and leaves every turn as it was.
C16_TurnsLeaveRegistry ==
    [][ /\ turnVars' # turnVars => agents' = agents
        /\ agents' # agents
              => /\ \E rt \in Runtimes : registerAgent(rt) \/ unregisterAgent(rt)
                 /\ turnVars' = turnVars ]_vars

\* A turn ran to the end of its background work, dispatch included, with its
\* agent still registered.
C16_Witness ==
    \E t \in Turns :
        /\ MapHas(agents, runtime[t].agentId)
        /\ dispatch[t].st = "resolved"


\* C17: a turn calls processActions at most once, only when actions is a
\* non-empty sequence, and for the first element of actions; an empty actions
\* sequence causes no call.
C17_DispatchFirstActionOnly ==
    \A t \in Turns :
        /\ Cardinality(Calls(t, "processActions")) <= 1
        /\ \A d \in Calls(t, "processActions") :
              /\ Validated(t)
              /\ hfOut[t].actions.t = "array"
              /\ Len(hfOut[t].actions.v) > 0
              /\ log[t][d].arg = hfOut[t].actions.v[1]
        /\ (Validated(t) /\ hfOut[t].actions = Arr(<<>>))
              => Calls(t, "processActions") = {}

\* A decision with two different behaviors was dispatched.
C17_Witness ==
    \E t \in Turns :
        /\ Validated(t)
        /\ hfOut[t].actions = Arr(<<Str("jump"), Str("run")>>)
        /\ Calls(t, "processActions") # {}
        /\ dispatch[t].st = "resolved"


\* The behaviors a record names: Content has the one field `action`.
RecordActions(record) ==
    IF record.content.action.t = "string" THEN {record.content.action} ELSE {}

\* C18: when actions has more than one element, the elements after the first
\* are kept in the outgoing record.
C18_LaterActionsInRecord ==
    (/\ result.fn = "record"
     /\ arg.hfOut.actions.t = "array"
     /\ Len(arg.hfOut.actions.v) > 1)
        => \A i \in 2..Len(arg.hfOut.actions.v) :
              arg.hfOut.actions.v[i] \in RecordActions(result.value)


\* C19: every processActions call of a turn comes after the turn's evaluate
\* call has resolved; a turn whose evaluate was rejected makes no
\* processActions call, and its outgoing record is still in the store.
C19_DispatchAfterEvaluation ==
    \A t \in Turns :
        /\ \A d \in Calls(t, "processActions") :
              \E e \in Calls(t, "evaluate") :
                 \E r \in Settlements(t, "evaluate", "resolved") : e < r /\ r < d
        /\ Settlements(t, "evaluate", "rejected") # {}
              => /\ Calls(t, "processActions") = {}
                 /\ dispatch[t].st = "none"
                 /\ OutgoingRecords(t) # {}

\* Evaluation failed in a turn whose decision names a behavior.
C19_Witness ==
    \E t \in Turns :
        /\ Settlements(t, "evaluate", "rejected") # {}
        /\ Truthy(ActionTag(hfOut[t]))
        /\ OutgoingRecords(t) # {}


\* A turn has answered at most once, and a validated turn with the decision
\* and its four fields.
OneResponse(t) ==
    /\ Len(sent[t]) <= 1
    /\ Validated(t)
          => /\ sent[t] = <<Json(hfOut[t])>>
             /\ DOMAIN hfOut[t] = SchemaKeys

\* C20: every turn sends at most one response, the validated decision with
\* its four fields on the success path, and once a response is sent no later
\* step (a createMemory or evaluate outcome, the dispatch, its callback)
\* changes it or adds another.
C20_OneResponsePerTurn ==
    [][ \A t \in Turns :
           /\ OneResponse(t)'
           /\ sent[t] # <<>> => sent'[t] = sent[t] ]_vars

\* The dispatched behavior called back and settled, and the caller holds the
\* decision.
C20_Witness ==
    \E t \in Turns :
        /\ dispatch[t].calledBack
        /\ dispatch[t].st = "resolved"
        /\ sent[t] = <<Json(hfOut[t])>>

====
